---- MODULE Spec2Model ----
(***************************************************************************)
(* Model of the numeric core of scroll-story-app/src/App.tsx: the         *)
(* alignment of the solar series with the load series, the clipping of    *)
(* solar output against real-time hosting capacity, the monthly           *)
(* aggregation (calculateMonthlyStats, calculateAnnualCurtailmentPct) and *)
(* the plant-size sweep of generatePlot (case 6).                         *)
(*                                                                         *)
(* Numbers are integers (MW, per-unit output and MWh are drawn from       *)
(* integer sets, so sums are exact); a quotient is kept as a fraction     *)
(* [n, d], and d = 0 records a division by zero.                          *)
(* A Date is [day, ms]: the day of the (non-leap) year in local time and  *)
(* the millisecond within that day (days of 24 hours, no clock change).   *)
(***************************************************************************)
EXTENDS Integers, Sequences, FiniteSets, TLC

(* ---------------------------------------------------------------- bounds *)

MaxLoad == 2

MaxSolar == 2

(* ------------------------------------------------------------ input sets *)

\* Instants, ascending: Jan 1 00:00:00.000; then Nov 30 23:00:00.000 and the
\* instants 3,599,999 ms, 3,600,000 ms and 3,600,001 ms after it, the last
\* two being Dec 1 00:00:00.000 and Dec 1 00:00:00.001.
TimeLine ==
  << [day |-> 0,   ms |-> 0],
     [day |-> 333, ms |-> 82800000],
     [day |-> 333, ms |-> 86399999],
     [day |-> 334, ms |-> 0],
     [day |-> 334, ms |-> 1] >>

LoadValues == {-12, 5}

PerUnitValues == {2}

PlantSizes == {0, 10}

ThermalLimits == {-15, -10, -5}

RECURSIVE SortedIndices(_)
SortedIndices(S) ==
  IF S = {} THEN << >>
  ELSE LET lo == CHOOSE i \in S : \A j \in S : i <= j
       IN  << lo >> \o SortedIndices(S \ {lo})

IndexSets(n) == { S \in SUBSET (1..Len(TimeLine)) : Cardinality(S) <= n }

\* Every load series with strictly ascending, unique timestamps.
LoadSeries ==
  UNION { { [i \in 1..Cardinality(S) |->
               [timestamp   |-> TimeLine[SortedIndices(S)[i]],
                net_load_mw |-> v[i]]] :
            v \in [1..Cardinality(S) -> LoadValues] } :
          S \in IndexSets(MaxLoad) }

\* Every solar series with strictly ascending, unique timestamps.
SolarSeries ==
  UNION { { [i \in 1..Cardinality(S) |->
               [timestamp      |-> TimeLine[SortedIndices(S)[i]],
                ac_kw_per_kwdc |-> v[i]]] :
            v \in [1..Cardinality(S) -> PerUnitValues] } :
          S \in IndexSets(MaxSolar) }

(* ----------------------------------------------------------- arithmetic *)

Abs(x) == IF x < 0 THEN -x ELSE x

Min(a, b) == IF a < b THEN a ELSE b

\* A quotient n / d, kept exact.
Rat(n, d) == [n |-> n, d |-> d]

MsPerDay == 24 * 3600000

\* a.getTime() - b.getTime().  Instants two or more days apart give a
\* difference of two days: every such pair is more than one day apart, and
\* the difference is only ever compared with one hour.
TimeDelta(a, b) ==
  LET dd == a.day - b.day
  IN  IF dd > 1 THEN 2 * MsPerDay
      ELSE IF dd < -1 THEN -2 * MsPerDay
      ELSE dd * MsPerDay + a.ms - b.ms

\* Variant: the month counted from 1 (January = 1 .. December = 12).
getMonthOneBased(t) ==
  IF t.day < 31 THEN 1
  ELSE IF t.day < 59 THEN 2
  ELSE IF t.day < 90 THEN 3
  ELSE IF t.day < 120 THEN 4
  ELSE IF t.day < 151 THEN 5
  ELSE IF t.day < 181 THEN 6
  ELSE IF t.day < 212 THEN 7
  ELSE IF t.day < 243 THEN 8
  ELSE IF t.day < 273 THEN 9
  ELSE IF t.day < 304 THEN 10
  ELSE IF t.day < 334 THEN 11
  ELSE 12

\* Date.prototype.getMonth(): 0 for January .. 11 for December, from the
\* day of a 365-day year.
getMonth(t) ==
  IF t.day < 31 THEN 0
  ELSE IF t.day < 59 THEN 1
  ELSE IF t.day < 90 THEN 2
  ELSE IF t.day < 120 THEN 3
  ELSE IF t.day < 151 THEN 4
  ELSE IF t.day < 181 THEN 5
  ELSE IF t.day < 212 THEN 6
  ELSE IF t.day < 243 THEN 7
  ELSE IF t.day < 273 THEN 8
  ELSE IF t.day < 304 THEN 9
  ELSE IF t.day < 334 THEN 10
  ELSE 11

(* ------------------------------------------------------------ alignment *)

\* Variant: an inclusive window.
WithinToleranceLeq(l, s) ==
  Abs(TimeDelta(l.timestamp, s.timestamp)) <= 3600000

\* The predicate handed to find: |l.getTime() - s.getTime()| < 3600000.
WithinTolerance(l, s) ==
  Abs(TimeDelta(l.timestamp, s.timestamp)) < 3600000

RECURSIVE FindIndexFrom(_, _, _)
FindIndexFrom(data, s, i) ==
  IF i > Len(data) THEN 0
  ELSE IF WithinTolerance(data[i], s) THEN i
  ELSE FindIndexFrom(data, s, i + 1)

\* Variant: the qualifying load point that is nearest in time (the lowest
\* index among equally near ones), 0 when none qualifies.
NearestIndex(data, s) ==
  LET Q == { i \in 1..Len(data) : WithinTolerance(data[i], s) }
      D(i) == Abs(TimeDelta(data[i].timestamp, s.timestamp))
  IN  IF Q = {} THEN 0
      ELSE CHOOSE i \in Q : \A j \in Q : D(i) < D(j) \/ (D(i) = D(j) /\ i <= j)

\* loadData.find(l => ...): the index of the first load point, in sequence
\* order, that satisfies the predicate; 0 stands for undefined.
findMatchingLoad(data, s) == FindIndexFrom(data, s, 1)

(* ------------------------------------------------------------- clipping *)

\* Variant: the thermal limit taken with the opposite sign.
capacityPlus(netLoad, thermalLimit) == netLoad + thermalLimit

\* const capacity = matchingLoad.net_load_mw - thermalLimit
capacity(netLoad, thermalLimit) == netLoad - thermalLimit

\* const outputRaw = s.ac_kw_per_kwdc * solarSize
outputRaw(s, solarSize) == s.ac_kw_per_kwdc * solarSize

\* Variant: the larger of raw output and hosting capacity.
outputFIMax(raw, cap) == IF raw >= cap THEN raw ELSE cap

\* Variant: the raw output, not clipped to the hosting capacity.
outputFIUnclipped(raw, cap) == raw

\* const outputFI = Math.min(outputRaw, capacity)
outputFI(raw, cap) == Min(raw, cap)

(* ---------------------------------------------------------- aggregation *)

\* Variant: the callback without its month test.
MonthlyStepNoMonth(load, s, month, solarSize, thermalLimit, acc) ==
  LET raw == outputRaw(s, solarSize)
      j   == findMatchingLoad(load, s)
  IN  IF j # 0
        THEN LET fi == outputFI(raw, capacity(load[j].net_load_mw, thermalLimit))
             IN  [production  |-> acc.production + fi,
                  curtailment |-> acc.curtailment + (raw - fi)]
        ELSE acc

\* Variant: curtailment taken as raw output above the hosting capacity,
\* also where the capacity exceeds the raw output.
MonthlyStepCurtailAboveCapacity(load, s, month, solarSize, thermalLimit, acc) ==
  IF getMonth(s.timestamp) = month
    THEN LET raw == outputRaw(s, solarSize)
             j   == findMatchingLoad(load, s)
         IN  IF j # 0
               THEN LET cap == capacity(load[j].net_load_mw, thermalLimit)
                    IN  [production  |-> acc.production + outputFI(raw, cap),
                         curtailment |-> acc.curtailment + (raw - cap)]
               ELSE acc
    ELSE acc

\* The callback of solarData.forEach in calculateMonthlyStats, applied to
\* sample s with the accumulators acc = [production, curtailment].
MonthlyStep(load, s, month, solarSize, thermalLimit, acc) ==
  IF getMonth(s.timestamp) = month
    THEN LET raw == outputRaw(s, solarSize)
             j   == findMatchingLoad(load, s)
         IN  IF j # 0
               THEN LET fi == outputFI(raw,
                                capacity(load[j].net_load_mw, thermalLimit))
                    IN  [production  |-> acc.production + fi,
                         curtailment |-> acc.curtailment + (raw - fi)]
               ELSE acc
    ELSE acc

\* solarData.forEach(...) for one month, from sample i on.
RECURSIVE MonthlyForEach(_, _, _, _, _, _, _)
MonthlyForEach(load, solar, month, solarSize, thermalLimit, i, acc) ==
  IF i > Len(solar) THEN acc
  ELSE MonthlyForEach(load, solar, month, solarSize, thermalLimit, i + 1,
         MonthlyStep(load, solar[i], month, solarSize, thermalLimit, acc))

\* for (let month = 0; month < 12; month++) { ...; monthlyData.push({...}) }
RECURSIVE MonthLoop(_, _, _, _, _, _)
MonthLoop(load, solar, solarSize, thermalLimit, month, monthlyData) ==
  IF ~(month < 12) THEN monthlyData
  ELSE LET acc == MonthlyForEach(load, solar, month, solarSize, thermalLimit,
                    1, [production |-> 0, curtailment |-> 0])
       IN  MonthLoop(load, solar, solarSize, thermalLimit, month + 1,
             Append(monthlyData,
                    [month          |-> month,
                     productionMWh  |-> acc.production,
                     curtailmentMWh |-> acc.curtailment]))

\* Variant: the month loop started at 1.
calculateMonthlyStatsShort(load, solar, solarSize, thermalLimit) ==
  MonthLoop(load, solar, solarSize, thermalLimit, 1, << >>)

calculateMonthlyStats(load, solar, solarSize, thermalLimit) ==
  MonthLoop(load, solar, solarSize, thermalLimit, 0, << >>)

\* monthlyData.reduce((sum, m) => sum + m.productionMWh, 0)
RECURSIVE ReduceProduction(_, _, _)
ReduceProduction(data, i, sum) ==
  IF i > Len(data) THEN sum
  ELSE ReduceProduction(data, i + 1, sum + data[i].productionMWh)

\* monthlyData.reduce((sum, m) => sum + m.curtailmentMWh, 0)
RECURSIVE ReduceCurtailment(_, _, _)
ReduceCurtailment(data, i, sum) ==
  IF i > Len(data) THEN sum
  ELSE ReduceCurtailment(data, i + 1, sum + data[i].curtailmentMWh)

calculateAnnualCurtailmentPct(data) ==
  LET totalProduction  == ReduceProduction(data, 1, 0)
      totalCurtailment == ReduceCurtailment(data, 1, 0)
  IN  IF totalCurtailment > 0
        THEN Rat(100 * totalCurtailment, totalProduction + totalCurtailment)
        ELSE Rat(0, 1)

(* ------------------------------------------------------ plant-size sweep *)

THERMAL_LIMIT == -10

\* Math.min(...realTimeCapacity), for a non-empty array.
RECURSIVE MinFrom(_, _, _)
MinFrom(xs, i, m) ==
  IF i > Len(xs) THEN m ELSE MinFrom(xs, i + 1, Min(m, xs[i]))

\* The callback of solarData.forEach in generatePlot (case 6).
AnnualStep(load, s, size, acc) ==
  LET raw == outputRaw(s, size)
      j   == findMatchingLoad(load, s)
  IN  IF j # 0
        THEN LET fi == outputFI(raw,
                         capacity(load[j].net_load_mw, THERMAL_LIMIT))
             IN  [totalMWh     |-> acc.totalMWh + fi,
                  curtailedMWh |-> acc.curtailedMWh + (raw - fi)]
        ELSE acc

RECURSIVE AnnualForEach(_, _, _, _, _)
AnnualForEach(load, solar, size, i, acc) ==
  IF i > Len(solar) THEN acc
  ELSE AnnualForEach(load, solar, size, i + 1,
         AnnualStep(load, solar[i], size, acc))

\* One sweep point: the totals of a single pass over all solar samples.
AnnualTotals(load, solar, size) ==
  AnnualForEach(load, solar, size, 1, [totalMWh |-> 0, curtailedMWh |-> 0])

\* Variant: the accumulators declared outside sizes.forEach, so that each
\* sweep point starts from the totals of the one before.
sweepAccumulatorsCarried(previous) == previous

\* let totalMWh = 0; let curtailedMWh = 0; inside the callback of
\* sizes.forEach: every sweep point starts from zero, whatever the totals of
\* the point before were.
sweepAccumulators(previous) == [totalMWh |-> 0, curtailedMWh |-> 0]

\* sizes.forEach(size => {...}) from point k on; out collects the totals
\* that are pushed (before the division by 1000).
RECURSIVE SweepForEach(_, _, _, _, _, _)
SweepForEach(load, solar, szs, k, previous, out) ==
  IF k > Len(szs) THEN out
  ELSE LET totals == AnnualForEach(load, solar, szs[k], 1,
                                   sweepAccumulators(previous))
       IN  SweepForEach(load, solar, szs, k + 1, totals, Append(out, totals))

SweepTotals(load, solar, szs) ==
  SweepForEach(load, solar, szs, 1, [totalMWh |-> 0, curtailedMWh |-> 0], << >>)

\* totalGWh[idx] > 0 ? (100 * curt / totalGWh[idx]) : 0
SweepPct(curt, total) ==
  IF total.n > 0 THEN Rat(100 * curt.n * total.d, curt.d * total.n)
  ELSE Rat(0, 1)

(* ------------------------------------------------- reverse-flow series *)

\* Bound of the series that the single-day plot draws its input from.
MaxFlow == 3

\* Instants around the plotted day, ascending: May 17 23:00:00.000, then
\* May 18 00:00:00.000, 00:00:00.001, 01:00:00.000 and 02:00:00.000.
FlowTimeLine ==
  << [day |-> 136, ms |-> 82800000],
     [day |-> 137, ms |-> 0],
     [day |-> 137, ms |-> 1],
     [day |-> 137, ms |-> 3600000],
     [day |-> 137, ms |-> 7200000] >>

FlowValues == {-1, 0, 1, 2}

\* Every load series over FlowTimeLine with strictly ascending timestamps.
FlowLoadSeries ==
  UNION { { [i \in 1..Cardinality(S) |->
               [timestamp   |-> FlowTimeLine[SortedIndices(S)[i]],
                net_load_mw |-> v[i]]] :
            v \in [1..Cardinality(S) -> FlowValues] } :
          S \in { T \in SUBSET (1..Len(FlowTimeLine)) : Cardinality(T) <= MaxFlow } }

\* a <= b on Dates.
TimeLeq(a, b) == a.day < b.day \/ (a.day = b.day /\ a.ms <= b.ms)

\* filterDataByDate(data, startDate, endDate): the points from 00:00:00 of
\* the start day to 23:59:59 of the end day (setHours leaves the
\* milliseconds, 0, of the parsed dates); days are days of the year, the
\* date strings being read in the local time zone.
filterDataByDate(data, startDay, endDay) ==
  LET start == [day |-> startDay, ms |-> 0]
      end   == [day |-> endDay, ms |-> 86399000]
      Keep(d) == TimeLeq(start, d.timestamp) /\ TimeLeq(d.timestamp, end)
  IN  SelectSeq(data, Keep)

\* An element of yOut: a number or null.
Num(n) == [isNull |-> FALSE, v |-> n]

Null == [isNull |-> TRUE, v |-> 0]

\* x[-1] of an array: undefined.
Undefined == [day |-> -1, ms |-> -1]

\* new Date(NaN): an invalid date.
InvalidDate == [day |-> -2, ms |-> -2]

\* Variant: only strictly negative values are kept.
keepValueStrict(yv) == IF yv < 0 THEN Num(yv) ELSE Null

\* Variant: every value is kept, positive ones too.
keepValueAlways(yv) == Num(yv)

\* y0 <= 0 ? y0 : null
keepValue(yv) == IF yv <= 0 THEN Num(yv) ELSE Null

\* Variant: only upward crossings are seen.
crossesZeroUpward(y0, y1) == y0 <= 0 /\ y1 > 0

\* const crossesZero = (y0 <= 0 && y1 > 0) || (y0 > 0 && y1 <= 0)
crossesZero(y0, y1) == (y0 <= 0 /\ y1 > 0) \/ (y0 > 0 /\ y1 <= 0)

\* Variant: a pair that touches zero counts, and equal values are not
\* excluded.
insertsCrossingLoose(y0, y1) == (y0 <= 0 /\ y1 >= 0) \/ (y0 >= 0 /\ y1 <= 0)

\* if (crossesZero && y1 !== y0)
insertsCrossing(y0, y1) == crossesZero(y0, y1) /\ y1 # y0

\* Variant: the numerator with the wrong sign.
fracWrongSign(y0, y1) == Rat(y0, y1 - y0)

\* const frac = -y0 / (y1 - y0)
frac(y0, y1) == Rat(-y0, y1 - y0)

\* t plus off milliseconds, off >= 0.
TimeAdd(t, off) ==
  [day |-> t.day + (t.ms + off) \div MsPerDay, ms |-> (t.ms + off) % MsPerDay]

\* new Date(t0 + (t1 - t0) * frac): the Date constructor drops the fraction
\* of a millisecond; a NaN (frac = 0/0) or infinite time value gives an
\* invalid date.  A crossing time before x0 is given as x0 minus whole ms.
tCross(x0, x1, f) ==
  IF f.d = 0 THEN InvalidDate
  ELSE LET dt  == TimeDelta(x1, x0)
           num == IF f.d < 0 THEN -(dt * f.n) ELSE dt * f.n
           den == IF f.d < 0 THEN -f.d ELSE f.d
           off == num \div den
       IN  IF off >= 0 THEN TimeAdd(x0, off)
           ELSE [day |-> x0.day, ms |-> x0.ms + off]

\* The body of the for loop of buildReverseFlowSeries for index i (from 1),
\* applied to out = [x, y, inserted, divisors]: inserted marks the crossing
\* points among the output points, divisors lists the y1 - y0 divided by.
FlowStep(x, y, i, out) ==
  LET kept == [x         |-> Append(out.x, x[i]),
               y         |-> Append(out.y, keepValue(y[i])),
               inserted  |-> Append(out.inserted, FALSE),
               divisors  |-> out.divisors]
  IN  IF insertsCrossing(y[i], y[i + 1])
        THEN [x         |-> Append(kept.x, tCross(x[i], x[i + 1], frac(y[i], y[i + 1]))),
              y         |-> Append(kept.y, Num(0)),
              inserted  |-> Append(kept.inserted, TRUE),
              divisors  |-> Append(kept.divisors, y[i + 1] - y[i])]
        ELSE kept

\* for (let i = 0; i < x.length - 1; i++) { ... }
RECURSIVE FlowLoop(_, _, _, _)
FlowLoop(x, y, i, out) ==
  IF ~(i < Len(x)) THEN out
  ELSE FlowLoop(x, y, i + 1, FlowStep(x, y, i, out))

\* buildReverseFlowSeries(x, y).  After the loop the last original point is
\* pushed; on empty arrays x[-1] and y[-1] are undefined, and
\* undefined <= 0 is false, so (undefined, null) is pushed.
buildReverseFlowSeries(x, y) ==
  LET out == FlowLoop(x, y, 1,
               [x |-> << >>, y |-> << >>, inserted |-> << >>, divisors |-> << >>])
  IN  [x        |-> Append(out.x, IF Len(x) = 0 THEN Undefined ELSE x[Len(x)]),
       y        |-> Append(out.y, IF Len(y) = 0 THEN Null ELSE keepValue(y[Len(y)])),
       inserted |-> Append(out.inserted, FALSE),
       divisors |-> out.divisors]

(* ------------------------------------------------------ multi-day plots *)

\* How many load points of the hourly scenario may be missing.
MaxDropped == 2

\* The hourly scenario: 7 net-load values from T0 on, one per hour, and a
\* solar sample of per-unit 1 at each of the 7 timestamps.
ScenarioValues == << -5, -8, -12, -9, -3, 2, 5 >>

\* T0: May 15 22:00 (two hours before the plotted window opens) or
\* May 16 00:00.
PlotStarts == { [day |-> 134, ms |-> 79200000], [day |-> 135, ms |-> 0] }

PlotSizes == {3, 15}

ScenarioLoad(T0) ==
  [i \in 1..Len(ScenarioValues) |->
     [timestamp   |-> TimeAdd(T0, (i - 1) * 3600000),
      net_load_mw |-> ScenarioValues[i]]]

ScenarioSolar(T0) ==
  [i \in 1..Len(ScenarioValues) |->
     [timestamp      |-> TimeAdd(T0, (i - 1) * 3600000),
      ac_kw_per_kwdc |-> 1]]

\* The scenario's load series with up to MaxDropped points missing.
PlotLoadSeries(T0) ==
  { [i \in 1..Cardinality(K) |-> ScenarioLoad(T0)[SortedIndices(K)[i]]] :
      K \in { L \in SUBSET (1..Len(ScenarioValues)) :
                Cardinality(L) >= Len(ScenarioValues) - MaxDropped } }

\* const SOLAR_SIZE_DC = 15; // MW
SOLAR_SIZE_DC == 15

\* The callback of solarOutputRaw.map(...): timestamps.findIndex with the
\* strict one-hour predicate; Math.min(output, realTimeCapacity[idx]) for a
\* match and the raw output itself otherwise.
firmOutput(tenDayData, s, size, limit) ==
  LET closestCapIdx == FindIndexFrom(tenDayData, s, 1)
  IN  IF closestCapIdx # 0
        THEN Num(Min(outputRaw(s, size),
                     capacity(tenDayData[closestCapIdx].net_load_mw, limit)))
        ELSE Num(outputRaw(s, size))

\* The series of generateMultiDayPlot(solarSize, thermalLimit) for May 16 to
\* May 20 (days 135 to 139 of the year); generatePlot(5) builds the same
\* series with SOLAR_SIZE_DC and THERMAL_LIMIT.
generateMultiDayPlot(load, solar, size, limit) ==
  LET tenDayData == filterDataByDate(load, 135, 139)
      InPeriod(s) ==
        /\ TimeLeq(tenDayData[1].timestamp, s.timestamp)
        /\ TimeLeq(s.timestamp, tenDayData[Len(tenDayData)].timestamp)
      solarForPeriod == SelectSeq(solar, InPeriod)
  IN  [timestamps       |-> [i \in 1..Len(tenDayData) |-> tenDayData[i].timestamp],
       realTimeCapacity |-> [i \in 1..Len(tenDayData) |->
                               capacity(tenDayData[i].net_load_mw, limit)],
       solarForPeriod   |-> solarForPeriod,
       solarOutputRaw   |-> [i \in 1..Len(solarForPeriod) |->
                               outputRaw(solarForPeriod[i], size)],
       solarOutputFI    |-> [i \in 1..Len(solarForPeriod) |->
                               firmOutput(tenDayData, solarForPeriod[i], size, limit)]]

(* ----------------------------------------------------------------- state *)

VARIABLES
  loadData,            \* LoadData[]: the parsed net-load series
  solarData,           \* SolarData[]: the parsed per-unit solar series
  solarSize,           \* arguments of the latest generateMonthlyBarChart
  thermalLimit,
  monthlyData,         \* its calculateMonthlyStats result, << >> before a call
  annualCurtPct,       \* its calculateAnnualCurtailmentPct result
  matchingLoad,        \* per solar sample, what loadData.find returned
  sizes,               \* generatePlot (case 6): the swept plant sizes
  annualMWh,           \* per sweep point, totalMWh / 1000
  annualCurtailedMWh,  \* per sweep point, curtailedMWh / 1000
  totalGWh,
  pctCurt,
  timestamps,          \* generatePlot (case 0): the plotted day's timestamps
  netLoad,             \* generatePlot (case 0): the plotted day's net load
  reverseSeries,       \* generatePlot (case 0): buildReverseFlowSeries result
  multiDayPlot,        \* the series of generateMultiDayPlot
  case5Plot            \* the series of generatePlot (case 5)

seriesVars == << loadData, solarData >>

chartVars == << solarSize, thermalLimit, monthlyData, annualCurtPct,
                matchingLoad >>

sweepVars == << sizes, annualMWh, annualCurtailedMWh, totalGWh, pctCurt >>

flowVars == << timestamps, netLoad, reverseSeries >>

vars == << loadData, solarData, solarSize, thermalLimit, monthlyData,
           annualCurtPct, matchingLoad, sizes, annualMWh,
           annualCurtailedMWh, totalGWh, pctCurt, timestamps, netLoad,
           reverseSeries, multiDayPlot, case5Plot >>

plotVars == << multiDayPlot, case5Plot >>

\* A multi-day plot before it is drawn.
NotPlotted ==
  [timestamps |-> << >>, realTimeCapacity |-> << >>, solarForPeriod |-> << >>,
   solarOutputRaw |-> << >>, solarOutputFI |-> << >>]

\* reverseSeries before buildReverseFlowSeries has run (its result always
\* holds at least one point).
NotBuilt == [x |-> << >>, y |-> << >>, inserted |-> << >>, divisors |-> << >>]

\* Nothing has been computed or plotted yet.  solarSize and thermalLimit
\* start at the sliders' defaults, 15 and -10.
NothingComputed ==
  /\ solarSize = 15
  /\ thermalLimit = -10
  /\ monthlyData = << >>
  /\ annualCurtPct = Rat(0, 1)
  /\ matchingLoad = << >>
  /\ sizes = << >>
  /\ annualMWh = << >>
  /\ annualCurtailedMWh = << >>
  /\ totalGWh = << >>
  /\ pctCurt = << >>
  /\ timestamps = << >>
  /\ netLoad = << >>
  /\ reverseSeries = NotBuilt
  /\ multiDayPlot = NotPlotted
  /\ case5Plot = NotPlotted

\* The state once both CSV files are parsed.
Init ==
  /\ loadData \in LoadSeries
  /\ solarData \in SolarSeries
  /\ NothingComputed

\* generateMonthlyBarChart(size, limit): calculateMonthlyStats, then
\* calculateAnnualCurtailmentPct on its result.
GenerateMonthlyBarChart(size, limit) ==
  /\ solarSize' = size
  /\ thermalLimit' = limit
  /\ monthlyData' = calculateMonthlyStats(loadData, solarData, size, limit)
  /\ annualCurtPct' = calculateAnnualCurtailmentPct(monthlyData')
  /\ matchingLoad' = [i \in 1..Len(solarData) |->
                        findMatchingLoad(loadData, solarData[i])]
  /\ UNCHANGED << seriesVars, sweepVars, flowVars, plotVars >>

\* const minCapacity = Math.min(...loadData.map(d => d.net_load_mw - THERMAL_LIMIT))
minCapacity(load) ==
  MinFrom([i \in 1..Len(load) |-> capacity(load[i].net_load_mw, THERMAL_LIMIT)],
          2, capacity(load[1].net_load_mw, THERMAL_LIMIT))

\* generatePlot(6): the annual comparison over sizes [minCapacity, 10, 15].
GeneratePlotCase6 ==
  /\ Len(loadData) # 0
  /\ sizes' = << minCapacity(loadData), 10, 15 >>
  /\ annualMWh' = [k \in 1..3 |->
       Rat(SweepTotals(loadData, solarData, sizes')[k].totalMWh, 1000)]
  /\ annualCurtailedMWh' = [k \in 1..3 |->
       Rat(SweepTotals(loadData, solarData, sizes')[k].curtailedMWh, 1000)]
  /\ totalGWh' = [k \in 1..3 |->
       Rat(annualMWh'[k].n + annualCurtailedMWh'[k].n, 1000)]
  /\ pctCurt' = [k \in 1..3 |-> SweepPct(annualCurtailedMWh'[k], totalGWh'[k])]
  /\ UNCHANGED << seriesVars, chartVars, flowVars, plotVars >>

Next ==
  \/ \E size \in PlantSizes, limit \in ThermalLimits :
       GenerateMonthlyBarChart(size, limit)
  \/ GeneratePlotCase6

Spec == Init /\ [][Next]_vars

(* ------------------------------------------ the single-day plot (case 0) *)

\* generatePlot(0): the net load of May 18 (day 137 of the year) and its
\* reverse-flow series.  On a day without load points the function still
\* returns a point; the layout that follows reads timestamps[0].getTime().
GeneratePlotCase0 ==
  /\ Len(loadData) # 0
  /\ timestamps' = [i \in 1..Len(filterDataByDate(loadData, 137, 137)) |->
                      filterDataByDate(loadData, 137, 137)[i].timestamp]
  /\ netLoad' = [i \in 1..Len(filterDataByDate(loadData, 137, 137)) |->
                   filterDataByDate(loadData, 137, 137)[i].net_load_mw]
  /\ reverseSeries' = buildReverseFlowSeries(timestamps', netLoad')
  /\ UNCHANGED << seriesVars, chartVars, sweepVars, plotVars >>

\* The load series around May 18 is parsed; there is no solar series.
InitFlow ==
  /\ loadData \in FlowLoadSeries
  /\ solarData = << >>
  /\ NothingComputed

NextFlow ==
  \/ GeneratePlotCase0
  \/ \E size \in PlantSizes, limit \in ThermalLimits :
       GenerateMonthlyBarChart(size, limit)

SpecFlow == InitFlow /\ [][NextFlow]_vars

(* ------------------------------------- the multi-day plots (memo, case 5) *)

\* generateMultiDayPlot(solarSizeMW, -planningLimitMW).  Without a load
\* point in the window timestamps[0].getTime() throws and nothing is drawn.
GenerateMultiDayPlot(size, limit) ==
  /\ Len(filterDataByDate(loadData, 135, 139)) # 0
  /\ multiDayPlot' = generateMultiDayPlot(loadData, solarData, size, limit)
  /\ UNCHANGED << seriesVars, chartVars, sweepVars, flowVars, case5Plot >>

\* generatePlot(5): the flexible-interconnection view.
GeneratePlotCase5 ==
  /\ Len(loadData) # 0
  /\ Len(filterDataByDate(loadData, 135, 139)) # 0
  /\ case5Plot' = generateMultiDayPlot(loadData, solarData, SOLAR_SIZE_DC,
                                       THERMAL_LIMIT)
  /\ UNCHANGED << seriesVars, chartVars, sweepVars, flowVars, multiDayPlot >>

\* The hourly scenario is parsed, some load points possibly missing.
InitPlot ==
  /\ \E T0 \in PlotStarts :
       /\ loadData \in PlotLoadSeries(T0)
       /\ solarData = ScenarioSolar(T0)
  /\ NothingComputed

NextPlot ==
  \/ \E size \in PlotSizes, limit \in ThermalLimits :
       GenerateMonthlyBarChart(size, limit)
  \/ \E size \in PlotSizes, limit \in ThermalLimits :
       GenerateMultiDayPlot(size, limit)
  \/ GeneratePlotCase5

SpecPlot == InitPlot /\ [][NextPlot]_vars

(* ------------------------------------------------ definitions for claims *)

Computed == monthlyData # << >>

Swept == sizes # << >>

\* |loadTimestamp - solarTimestamp| of load point j and solar sample i.
Distance(j, i) ==
  Abs(TimeDelta(loadData[j].timestamp, solarData[i].timestamp))

\* The load points within the strict one-hour window of solar sample i.
Qualifying(i) == { j \in 1..Len(loadData) : Distance(j, i) < 3600000 }

\* The lowest-index qualifying load point, 0 when there is none.
FirstQualifying(i) ==
  IF Qualifying(i) = {} THEN 0
  ELSE CHOOSE j \in Qualifying(i) : \A k \in Qualifying(i) : j <= k

\* The distance from solar sample i to its nearest load sample.
NearestDistance(i) ==
  CHOOSE d \in { Distance(j, i) : j \in 1..Len(loadData) } :
    \A j \in 1..Len(loadData) : d <= Distance(j, i)

FirstDayOfMonth == << 0, 31, 59, 90, 120, 151, 181, 212, 243, 273, 304, 334, 365 >>

\* Solar sample i is timestamped in calendar month m (0..11).
InMonth(i, m) ==
  /\ FirstDayOfMonth[m + 1] <= solarData[i].timestamp.day
  /\ solarData[i].timestamp.day < FirstDayOfMonth[m + 2]

\* The sum of f[x] over x in S.
RECURSIVE SetSum(_, _)
SetSum(S, f) ==
  IF S = {} THEN 0
  ELSE LET x == CHOOSE y \in S : TRUE
       IN  f[x] + SetSum(S \ {x}, f)

TotalProduction(data) ==
  SetSum(DOMAIN data, [i \in DOMAIN data |-> data[i].productionMWh])

TotalCurtailment(data) ==
  SetSum(DOMAIN data, [i \in DOMAIN data |-> data[i].curtailmentMWh])

\* The solar samples that have a load point within the strict window.
MatchedSamples ==
  LET Has(s) == \E j \in 1..Len(loadData) :
                  Abs(TimeDelta(loadData[j].timestamp, s.timestamp)) < 3600000
  IN  SelectSeq(solarData, Has)

(* ---------------------------------------------------------------- claims *)

\* C1: alignment is first-match-in-order.  For every solar sample, what find
\* returned is the lowest-index load point whose timestamp is less than the
\* tolerance away, even when a later load point is closer; it is "no match"
\* (0) when no load point qualifies.
C1_FirstMatchInOrder ==
  Computed =>
    \A i \in 1..Len(solarData) : matchingLoad[i] = FirstQualifying(i)

\* A solar sample aligned with a load point although a later load point
\* qualifies too and is strictly closer in time.
C1_Witness ==
  /\ Computed
  /\ \E i \in 1..Len(solarData) : \E j \in 1..Len(loadData) :
       /\ matchingLoad[i] # 0
       /\ j > matchingLoad[i]
       /\ Distance(j, i) < Distance(matchingLoad[i], i)

\* C2: the tolerance is a strict one-hour window.  A solar sample is matched
\* iff some load point is less than 3,600,000 ms away: matched at 3,599,999
\* ms, unmatched at 3,600,000 ms and beyond; and the unmatched samples add
\* nothing: the monthly and the annual totals are those of the series with
\* the unmatched samples removed.
C2_StrictOneHourWindow ==
  /\ Computed =>
       /\ \A i \in 1..Len(solarData) :
            /\ Len(loadData) = 0 => matchingLoad[i] = 0
            /\ Len(loadData) # 0 =>
                 /\ NearestDistance(i) <= 3599999 => matchingLoad[i] # 0
                 /\ NearestDistance(i) >= 3600000 => matchingLoad[i] = 0
       /\ monthlyData =
            calculateMonthlyStats(loadData, MatchedSamples, solarSize, thermalLimit)
  /\ Swept =>
       \A k \in 1..3 :
         /\ annualMWh[k].n =
              AnnualTotals(loadData, MatchedSamples, sizes[k]).totalMWh
         /\ annualCurtailedMWh[k].n =
              AnnualTotals(loadData, MatchedSamples, sizes[k]).curtailedMWh

\* One solar sample 3,599,999 ms from its nearest load sample, matched, and
\* another exactly 3,600,000 ms from its nearest load sample, unmatched, under
\* a plant that produces.
C2_Witness ==
  /\ Computed
  /\ Swept
  /\ solarSize > 0
  /\ Len(loadData) # 0
  /\ \E i \in 1..Len(solarData) :
       NearestDistance(i) = 3599999 /\ matchingLoad[i] # 0
  /\ \E i \in 1..Len(solarData) :
       NearestDistance(i) = 3600000 /\ matchingLoad[i] = 0

\* C3: for every month m in 0..11, productionMWh[m] is the sum of
\* min(raw, netLoad - thermalLimit) and curtailmentMWh[m] the sum of
\* raw - min(raw, netLoad - thermalLimit), over exactly the solar samples
\* timestamped in month m that have an aligned load point (raw = perUnit x
\* plantSize, netLoad from the aligned load point); unmatched samples
\* contribute nothing.
C3_MonthlySums ==
  Computed =>
    \A m \in 0..11 :
      LET S == { i \in 1..Len(solarData) : InMonth(i, m) /\ Qualifying(i) # {} }
          Raw(i)  == solarData[i].ac_kw_per_kwdc * solarSize
          Cap(i)  == loadData[FirstQualifying(i)].net_load_mw - thermalLimit
          Firm(i) == IF Raw(i) <= Cap(i) THEN Raw(i) ELSE Cap(i)
      IN  /\ monthlyData[m + 1].productionMWh =
                SetSum(S, [i \in S |-> Firm(i)])
          /\ monthlyData[m + 1].curtailmentMWh =
                SetSum(S, [i \in S |-> Raw(i) - Firm(i)])

\* A month with production and curtailment both positive, in a series that
\* holds a matched and an unmatched solar sample.
C3_Witness ==
  /\ Computed
  /\ solarSize > 0
  /\ \E m \in 0..11 :
       /\ monthlyData[m + 1].curtailmentMWh > 0
       /\ monthlyData[m + 1].productionMWh > 0
  /\ \E i, k \in 1..Len(solarData) :
       /\ Qualifying(i) # {}
       /\ Qualifying(k) = {}

\* C4: monthlyStats returns exactly 12 entries for any inputs, and the entry
\* at position i has month index i, so each month index 0..11 appears once.
C4_TwelveEntries ==
  Computed =>
    /\ Len(monthlyData) = 12
    /\ \A i \in 1..Len(monthlyData) : monthlyData[i].month = i - 1

\* monthlyStats was evaluated on empty series.
C4_Witness ==
  /\ Computed
  /\ Len(solarData) = 0
  /\ Len(loadData) = 0

\* C5: for plantSizeMW = 0 and any load series, solar series and thermal
\* limit, all 12 entries have productionMWh = 0 and curtailmentMWh = 0.
C5_ZeroPlantAllZero ==
  (Computed /\ solarSize = 0) =>
    \A i \in 1..Len(monthlyData) :
      /\ monthlyData[i].productionMWh = 0
      /\ monthlyData[i].curtailmentMWh = 0

\* C6: every MonthlyStat entry has productionMWh >= 0 and
\* curtailmentMWh >= 0, for every plant size >= 0, every thermal limit and
\* every pair of series.
C6_NonNegativeStats ==
  (Computed /\ solarSize >= 0) =>
    \A i \in 1..Len(monthlyData) :
      /\ monthlyData[i].productionMWh >= 0
      /\ monthlyData[i].curtailmentMWh >= 0

\* C7: annualCurtailmentPct of the output of monthlyStats is always in the
\* closed range [0, 100], for every plant size >= 0, and it is exactly 0
\* whenever the 12 curtailmentMWh values sum to 0.
C7_PctInRange ==
  (Computed /\ solarSize >= 0) =>
    /\ annualCurtPct.d > 0
    /\ 0 <= annualCurtPct.n
    /\ annualCurtPct.n <= 100 * annualCurtPct.d
    /\ TotalCurtailment(monthlyData) = 0 => annualCurtPct.n = 0

\* C8: annualCurtailmentPct returns 100 x (sum of curtailmentMWh) / (sum of
\* productionMWh + sum of curtailmentMWh) when that denominator is nonzero,
\* and 0 whenever the denominator is 0, so it never divides by zero.
C8_PctFormulaGuarded ==
  Computed =>
    LET C == TotalCurtailment(monthlyData)
        D == TotalProduction(monthlyData) + TotalCurtailment(monthlyData)
    IN  /\ annualCurtPct.d # 0
        /\ D # 0 => annualCurtPct.n * D = 100 * C * annualCurtPct.d
        /\ D = 0 => annualCurtPct.n = 0

\* C9: for a fixed configuration and pair of series, the sum of productionMWh
\* over the 12 monthly entries equals the annual production of the single
\* pass over all solar samples that the plant-size sweep makes for that plant
\* size and thermal limit, and likewise for curtailment.
C9_MonthlySumsEqualSinglePass ==
  (Computed /\ Swept /\ thermalLimit = THERMAL_LIMIT) =>
    \A k \in 1..Len(sizes) :
      sizes[k] = solarSize =>
        /\ annualMWh[k].d = 1000
        /\ annualMWh[k].n = TotalProduction(monthlyData)
        /\ annualCurtailedMWh[k].d = 1000
        /\ annualCurtailedMWh[k].n = TotalCurtailment(monthlyData)

\* The same configuration evaluated both ways, on a solar series whose
\* matched samples lie in two different months, with nonzero totals.
C9_Witness ==
  /\ Computed
  /\ Swept
  /\ thermalLimit = THERMAL_LIMIT
  /\ \E k \in 1..Len(sizes) :
       /\ sizes[k] = solarSize
       /\ annualMWh[k].n # 0
       /\ annualCurtailedMWh[k].n # 0
  /\ \E i, j \in 1..Len(solarData) :
       /\ Qualifying(i) # {}
       /\ Qualifying(j) # {}
       /\ solarData[i].timestamp.day < 31
       /\ solarData[j].timestamp.day >= 31

\* C10: curtailment is monotone in the thermal limit.  When monthlyStats is
\* evaluated again with the same plant size and series and a thermal limit
\* that is lower or equal (more export allowed), the total annual curtailment
\* is less than or equal to the one before.
C10_CurtailmentMonotone ==
  [][ ( /\ Computed
        /\ monthlyData' # << >>
        /\ solarSize' = solarSize
        /\ thermalLimit' <= thermalLimit )
      => TotalCurtailment(monthlyData') <= TotalCurtailment(monthlyData) ]_vars

\* A configuration whose total curtailment is positive and strictly drops
\* when the thermal limit is lowered.
C10_Witness ==
  /\ Computed
  /\ \E limit \in ThermalLimits :
       /\ limit < thermalLimit
       /\ TotalCurtailment(
            calculateMonthlyStats(loadData, solarData, solarSize, limit))
          < TotalCurtailment(monthlyData)

(* ------------------------------------- claims on the reverse-flow series *)

\* The single-day plot has been built.
Built == reverseSeries # NotBuilt

\* Positions of the output that hold an input point, in output order.
OriginalIndices ==
  SelectSeq([i \in 1..Len(reverseSeries.x) |-> i],
            LAMBDA i : ~reverseSeries.inserted[i])

\* Positions of the output that hold an inserted crossing point.
InsertedIndices ==
  { i \in 1..Len(reverseSeries.x) : reverseSeries.inserted[i] }

\* C12: the interpolator keeps every input point.  For an input of n >= 1
\* points the output without its inserted crossing points is the input in
\* the same order and with the same timestamps; a value y is kept when
\* y <= 0 and is a gap (null) when y > 0, the final point included.
C12_KeepsEveryInputPoint ==
  (Built /\ Len(timestamps) >= 1) =>
    /\ Len(OriginalIndices) = Len(timestamps)
    /\ \A k \in 1..Len(timestamps) :
         /\ k <= Len(OriginalIndices)
         /\ reverseSeries.x[OriginalIndices[k]] = timestamps[k]
         /\ reverseSeries.y[OriginalIndices[k]] =
              IF netLoad[k] <= 0 THEN [isNull |-> FALSE, v |-> netLoad[k]]
              ELSE [isNull |-> TRUE, v |-> 0]

\* Three points with a crossing inserted, a zero value kept and a positive
\* final point turned into a gap.
C12_Witness ==
  /\ Built
  /\ Len(timestamps) = 3
  /\ InsertedIndices # {}
  /\ \E k \in 1..2 : netLoad[k] = 0
  /\ netLoad[3] > 0
  /\ reverseSeries.y[Len(reverseSeries.y)].isNull


\* Output positions strictly between the k-th and the (k+1)-th input point.
Between(k) ==
  { i \in 1..Len(reverseSeries.x) :
      OriginalIndices[k] < i /\ i < OriginalIndices[k + 1] }

\* Exactly one of the k-th and (k+1)-th input values is <= 0, the other > 0.
SignChange(k) ==
  \/ (netLoad[k] <= 0 /\ netLoad[k + 1] > 0)
  \/ (netLoad[k] > 0 /\ netLoad[k + 1] <= 0)

\* One point of value 0 between the pair k, k+1 iff the sign changes there,
\* and no point otherwise.
OneCrossingIffSignChange(k) ==
  /\ Cardinality(Between(k)) = (IF SignChange(k) THEN 1 ELSE 0)
  /\ \A i \in Between(k) :
       reverseSeries.inserted[i] /\ reverseSeries.y[i] = [isNull |-> FALSE, v |-> 0]

\* Milliseconds from the k-th input point to the point inserted after it.
CrossingOffset(k) ==
  TimeDelta(reverseSeries.x[OriginalIndices[k] + 1], timestamps[k])

\* The exact linear interpolation -y0 / (y1 - y0) x (t1 - t0), as the
\* quotient of ExactNumerator(k) by ExactDivisor(k).
ExactNumerator(k) == (0 - netLoad[k]) * TimeDelta(timestamps[k + 1], timestamps[k])

ExactDivisor(k) == netLoad[k + 1] - netLoad[k]

\* For (t0, 1) and (t0 + 3600000, -1) the inserted point is at t0 + 1800000.
HalfHourExample(k) ==
  ( /\ netLoad[k] = 1
    /\ netLoad[k + 1] = -1
    /\ TimeDelta(timestamps[k + 1], timestamps[k]) = 3600000 )
  => CrossingOffset(k) = 1800000

C14_OutputLength ==
  Built =>
    /\ Len(timestamps) <= Len(reverseSeries.x)
    /\ Len(reverseSeries.x) <= 2 * Len(timestamps) - 1
    /\ Len(reverseSeries.y) = Len(reverseSeries.x)


\* C15: a series of length 0 yields empty or zero results.  monthlyStats
\* with an empty solar series or an empty load series gives 12 entries that
\* are all zero and annualCurtailmentPct 0, and the interpolator applied to
\* an empty sequence returns an empty sequence.
C15_EmptySeriesEmptyResults ==
  /\ (Computed /\ (Len(solarData) = 0 \/ Len(loadData) = 0)) =>
       /\ Len(monthlyData) = 12
       /\ \A i \in 1..Len(monthlyData) :
            /\ monthlyData[i].productionMWh = 0
            /\ monthlyData[i].curtailmentMWh = 0
       /\ annualCurtPct.n = 0
       /\ annualCurtPct.d # 0
  /\ (Built /\ Len(timestamps) = 0) =>
       /\ reverseSeries.x = << >>
       /\ reverseSeries.y = << >>


\* The crossing fraction of the pair k, k+1 lies in [0, 1].
FracInUnitInterval(k) ==
  LET f == frac(netLoad[k], netLoad[k + 1])
  IN  /\ f.d # 0
      /\ IF f.d > 0 THEN 0 <= f.n /\ f.n <= f.d
                    ELSE f.d <= f.n /\ f.n <= 0

\* C18: whenever a crossing point is inserted between (t0, y0) and (t1, y1)
\* with t0 <= t1, the crossing fraction -y0 / (y1 - y0) lies in [0, 1] and
\* t0 <= tCross <= t1.
C18_CrossingInsideInterval ==
  (Built /\ Len(timestamps) >= 1) =>
    /\ Len(OriginalIndices) = Len(timestamps)
    /\ \A k \in 1..(Len(timestamps) - 1) :
         \A i \in Between(k) :
           TimeLeq(timestamps[k], timestamps[k + 1]) =>
             /\ FracInUnitInterval(k)
             /\ TimeLeq(timestamps[k], reverseSeries.x[i])
             /\ TimeLeq(reverseSeries.x[i], timestamps[k + 1])

\* One crossing strictly inside its interval and one at the very start of
\* its interval (y0 = 0, fraction 0).
C18_Witness ==
  /\ Built
  /\ Len(timestamps) = 3
  /\ Len(OriginalIndices) = 3
  /\ \E k \in 1..2 : \E i \in Between(k) :
       /\ reverseSeries.x[i] # timestamps[k]
       /\ reverseSeries.x[i] # timestamps[k + 1]
  /\ \E k \in 1..2 : \E i \in Between(k) :
       netLoad[k] = 0 /\ reverseSeries.x[i] = timestamps[k]


\* The k-th input point appears in the output as a plain value or gap.
PlainPoint(k) ==
  /\ reverseSeries.x[OriginalIndices[k]] = timestamps[k]
  /\ reverseSeries.y[OriginalIndices[k]] =
       IF netLoad[k] <= 0 THEN [isNull |-> FALSE, v |-> netLoad[k]]
       ELSE [isNull |-> TRUE, v |-> 0]

\* C19: the interpolator never divides by zero.  The division by (y1 - y0)
\* is executed only for pairs with y1 # y0, once per inserted point, and a
\* pair of equal consecutive values, both <= 0 or both > 0, produces no
\* crossing point and leaves both points as plain value or gap points.
C19_NeverDividesByZero ==
  (Built /\ Len(timestamps) >= 1) =>
    /\ \A j \in 1..Len(reverseSeries.divisors) : reverseSeries.divisors[j] # 0
    /\ Len(reverseSeries.divisors) = Cardinality(InsertedIndices)
    /\ Len(OriginalIndices) = Len(timestamps)
    /\ \A k \in 1..(Len(timestamps) - 1) :
         netLoad[k + 1] = netLoad[k] =>
           /\ Between(k) = {}
           /\ PlainPoint(k)
           /\ PlainPoint(k + 1)

\* Two equal values, both <= 0 or both > 0, followed by a crossing for
\* which the division was executed.
C19_Witness ==
  /\ Built
  /\ Len(timestamps) = 3
  /\ netLoad[1] = netLoad[2]
  /\ netLoad[1] \in {0, 1}
  /\ Len(reverseSeries.divisors) = 1
  /\ reverseSeries.inserted = << FALSE, FALSE, TRUE, FALSE >>


(* ------------------------------------------ claims on the multi-day plots *)

Plotted(p) == p # NotPlotted

\* Sample s has no load point within the strict one-hour window.
Unmatched(s) ==
  \A j \in 1..Len(loadData) :
    ~(Abs(TimeDelta(loadData[j].timestamp, s.timestamp)) < 3600000)

\* No unmatched sample has a firm-output value in the display series of p.
DisplayExcludesUnmatched(p) ==
  \A i \in 1..Len(p.solarForPeriod) :
    Unmatched(p.solarForPeriod[i]) => p.solarOutputFI[i].isNull

\* C16: every caller of the alignment step excludes a solar sample that has
\* no load point within tolerance.  Such a sample adds nothing to the
\* monthly aggregates and has no firm-output value in the firm-solar display
\* series of generateMultiDayPlot and of generatePlot (case 5).
C16_UnmatchedExcluded ==
  /\ Computed =>
       TotalProduction(monthlyData) + TotalCurtailment(monthlyData)
         = SetSum(DOMAIN MatchedSamples,
                  [i \in DOMAIN MatchedSamples |->
                     MatchedSamples[i].ac_kw_per_kwdc * solarSize])
  /\ Plotted(multiDayPlot) => DisplayExcludesUnmatched(multiDayPlot)
  /\ Plotted(case5Plot) => DisplayExcludesUnmatched(case5Plot)


\* The load and solar series are the complete hourly scenario.
FullScenario ==
  \E T0 \in PlotStarts :
    loadData = ScenarioLoad(T0) /\ solarData = ScenarioSolar(T0)

\* Per solar sample of the scenario: the hosting capacity of the load point
\* it is paired with, its firm output and its curtailment.
PairedCapacity ==
  [i \in 1..Len(solarData) |->
     capacity(loadData[matchingLoad[i]].net_load_mw, thermalLimit)]

PairedFirmOutput ==
  [i \in 1..Len(solarData) |->
     outputFI(outputRaw(solarData[i], solarSize), PairedCapacity[i])]

PairedCurtailment ==
  [i \in 1..Len(solarData) |->
     outputRaw(solarData[i], solarSize) - PairedFirmOutput[i]]

\* C11: on the scenario of 7 hourly load values [-5,-8,-12,-9,-3,2,5] from
\* T0 on, thermal limit -10, solar per-unit 1 at the same 7 timestamps and
\* plant size 3, each solar sample is paired with the load sample at its own
\* timestamp; hosting capacity is [5,2,-2,1,7,12,15], firm output is
\* [3,2,-2,1,3,3,3], curtailment is [0,1,5,2,0,0,0], total production is 13
\* and total curtailment is 8.
C11_ConcreteScenario ==
  (FullScenario /\ Computed /\ solarSize = 3 /\ thermalLimit = -10) =>
    /\ Len(matchingLoad) = 7
    /\ \A i \in 1..7 :
         /\ matchingLoad[i] # 0
         /\ loadData[matchingLoad[i]].timestamp = solarData[i].timestamp
    /\ PairedCapacity = << 5, 2, -2, 1, 7, 12, 15 >>
    /\ PairedFirmOutput = << 3, 2, -2, 1, 3, 3, 3 >>
    /\ PairedCurtailment = << 0, 1, 5, 2, 0, 0, 0 >>
    /\ TotalProduction(monthlyData) = 13
    /\ TotalCurtailment(monthlyData) = 8

\* The scenario evaluated with plant size 3 and thermal limit -10: all of
\* the production and curtailment falls in May.
C11_Witness ==
  /\ FullScenario
  /\ Computed
  /\ solarSize = 3
  /\ thermalLimit = -10
  /\ monthlyData[5].productionMWh = 13
  /\ monthlyData[5].curtailmentMWh = 8


(* ------------------------------------------- claims on frame and clipping *)

\* The orders in which n sweep points can be visited.
Orders(n) ==
  { f \in [1..n -> 1..n] : \A a, b \in 1..n : f[a] = f[b] => a = b }

\* The totals of plant size `size` evaluated alone.
AloneTotals(load, solar, size) == SweepTotals(load, solar, << size >>)[1]

\* In every order of the sweep points szs each point's totals are those of
\* its plant size evaluated alone, and mwh, curt are those totals / 1000.
SweepIndependent(load, solar, szs, mwh, curt) ==
  /\ \A f \in Orders(Len(szs)) :
       LET order == [k \in 1..Len(szs) |-> szs[f[k]]]
       IN  SweepTotals(load, solar, order)
             = [k \in 1..Len(szs) |-> AloneTotals(load, solar, order[k])]
  /\ \A k \in 1..Len(szs) :
       /\ mwh[k] = Rat(AloneTotals(load, solar, szs[k]).totalMWh, 1000)
       /\ curt[k] = Rat(AloneTotals(load, solar, szs[k]).curtailedMWh, 1000)

\* C17: aggregation leaves its inputs unchanged and sweep points are
\* independent.  Every monthlyStats, annualCurtailmentPct or sweep
\* evaluation leaves the load and solar series element for element as they
\* were, and whenever sweep results are written the result for a plant size
\* inside the sweep is the result of evaluating that plant size alone,
\* whatever the order of the sweep points.
C17_InputsUnchangedSweepIndependent ==
  [][ /\ loadData' = loadData
      /\ solarData' = solarData
      /\ << sizes', annualMWh', annualCurtailedMWh' >>
           # << sizes, annualMWh, annualCurtailedMWh >> =>
             SweepIndependent(loadData', solarData', sizes', annualMWh',
                              annualCurtailedMWh') ]_vars

\* Monthly statistics and a sweep have both been evaluated on non-empty
\* series, and the sweep has non-zero totals at two points.
C17_Witness ==
  /\ Computed
  /\ Swept
  /\ Len(loadData) = 2
  /\ Len(solarData) = 2
  /\ annualMWh[1].n # 0
  /\ annualMWh[2].n # 0
  /\ annualCurtailedMWh[3].n # 0


\* Solar sample i, if matched, as sweep point k sees it: raw output, hosting
\* capacity of the matched load point, and curtailment raw - outputFI.
SweepRaw(k, i) == outputRaw(solarData[i], sizes[k])

SweepCapacity(k, i) ==
  capacity(loadData[findMatchingLoad(loadData, solarData[i])].net_load_mw,
           THERMAL_LIMIT)

SweepCurtailed(k, i) ==
  SweepRaw(k, i) - outputFI(SweepRaw(k, i), SweepCapacity(k, i))

\* The (sweep point, sample) pairs whose sample has a matching load point.
SweepPairs ==
  { p \in (1..Len(sizes)) \X (1..Len(solarData)) :
      findMatchingLoad(loadData, solarData[p[2]]) # 0 }

\* The hosting capacity is negative and exceeds the raw output.
NegativeCapacityAboveRaw(k, i) ==
  SweepCapacity(k, i) < 0 /\ SweepCapacity(k, i) > SweepRaw(k, i)

\* C20 (as stated): per-sample curtailment raw - min(raw, hostingCapacity)
\* can be negative, namely for an input in which hostingCapacity is negative
\* and exceeds the raw output.
C20_NegativeCurtailmentCase ==
  Swept =>
    \A p \in SweepPairs :
      NegativeCapacityAboveRaw(p[1], p[2]) => SweepCurtailed(p[1], p[2]) < 0

\* C20 (amended): per-sample curtailment raw - min(raw, hostingCapacity) is
\* never negative; when hostingCapacity is negative and exceeds the raw
\* output, min(raw, hostingCapacity) is the raw output and the curtailment
\* is 0, and so no total of curtailment over a sweep point is negative.
C20_CurtailmentNeverNegative ==
  Swept =>
    /\ \A p \in SweepPairs :
         /\ SweepCurtailed(p[1], p[2]) >= 0
         /\ NegativeCapacityAboveRaw(p[1], p[2]) => SweepCurtailed(p[1], p[2]) = 0
    /\ \A k \in 1..Len(sizes) :
         /\ annualCurtailedMWh[k].n >= 0
         /\ annualCurtailedMWh[k].n
              = SetSum({ i \in 1..Len(solarData) : << k, i >> \in SweepPairs },
                       [i \in 1..Len(solarData) |->
                          IF << k, i >> \in SweepPairs
                            THEN SweepCurtailed(k, i) ELSE 0])

\* A sweep whose first point is a negative plant size: one sample has a
\* negative hosting capacity above its raw output, another is curtailed.
C20_Witness ==
  /\ Swept
  /\ \E p \in SweepPairs : NegativeCapacityAboveRaw(p[1], p[2])
  /\ \E p \in SweepPairs : SweepCurtailed(p[1], p[2]) > 0


(* --------------------------------------------- claims on conserved energy *)

\* The raw output, perUnit x size, summed over the matched solar samples of
\* month m (0..11).
MatchedRawOfMonth(m, size) ==
  LET S == { i \in 1..Len(solarData) : InMonth(i, m) /\ Qualifying(i) # {} }
  IN  SetSum(S, [i \in S |-> solarData[i].ac_kw_per_kwdc * size])

\* The raw output summed over all matched solar samples.
MatchedRaw(size) ==
  LET S == { i \in 1..Len(solarData) : Qualifying(i) # {} }
  IN  SetSum(S, [i \in S |-> solarData[i].ac_kw_per_kwdc * size])

\* totalProduction + totalCurtailment, the denominator of the percentage.
PctDenominator(data) == TotalProduction(data) + TotalCurtailment(data)

\* C21: energy is conserved by clipping.  After every evaluation of
\* monthlyStats, productionMWh[m] + curtailmentMWh[m] equals the sum of raw
\* output (perUnit x plantSize) over the matched solar samples of month m,
\* for every month m; the denominator of annualCurtailmentPct is the total
\* raw output of all matched samples, and an evaluation with the same plant
\* size and another thermal limit leaves it as it was.
C21_EnergyConserved ==
  [][ monthlyData' # << >> =>
        /\ Len(monthlyData') = 12
        /\ \A m \in 0..11 :
             monthlyData'[m + 1].productionMWh + monthlyData'[m + 1].curtailmentMWh
               = MatchedRawOfMonth(m, solarSize')
        /\ PctDenominator(monthlyData') = MatchedRaw(solarSize')
        /\ TotalCurtailment(monthlyData') > 0 =>
             annualCurtPct'.d = MatchedRaw(solarSize')
        /\ (Computed /\ solarSize' = solarSize) =>
             PctDenominator(monthlyData') = PctDenominator(monthlyData) ]_vars

\* A month with curtailment and production, an unmatched sample, and a
\* thermal limit under which the same plant is curtailed by a different
\* amount.
C21_Witness ==
  /\ Computed
  /\ solarSize > 0
  /\ \E m \in 0..11 :
       /\ monthlyData[m + 1].curtailmentMWh > 0
       /\ monthlyData[m + 1].productionMWh # 0
  /\ \E i \in 1..Len(solarData) : Qualifying(i) = {}
  /\ \E limit \in ThermalLimits :
       TotalCurtailment(
         calculateMonthlyStats(loadData, solarData, solarSize, limit))
         # TotalCurtailment(monthlyData)
  /\ annualCurtPct.d = MatchedRaw(solarSize)


(* ------------------------------------------- claims on the shaded series *)

\* C22: for an input with ascending timestamps the output timestamps are
\* non-decreasing, an inserted crossing point neither precedes the point
\* before it nor follows the point after it, and every output value that is
\* not a gap is <= 0.
C22_OrderedAndNonPositive ==
  (Built /\ Len(timestamps) >= 1) =>
    /\ Len(reverseSeries.y) = Len(reverseSeries.x)
    /\ \A i \in 1..(Len(reverseSeries.x) - 1) :
         TimeLeq(reverseSeries.x[i], reverseSeries.x[i + 1])
    /\ \A i \in InsertedIndices :
         /\ 1 < i
         /\ i < Len(reverseSeries.x)
         /\ TimeLeq(reverseSeries.x[i - 1], reverseSeries.x[i])
         /\ TimeLeq(reverseSeries.x[i], reverseSeries.x[i + 1])
    /\ \A i \in 1..Len(reverseSeries.y) :
         ~reverseSeries.y[i].isNull => reverseSeries.y[i].v <= 0

\* Three ascending points holding a positive value, with one crossing
\* strictly between its neighbours and one that coincides with the point
\* before it (the crossing time truncated to that millisecond).
C22_Witness ==
  /\ Built
  /\ Len(timestamps) = 3
  /\ \E k \in 1..3 : netLoad[k] > 0
  /\ \E i \in InsertedIndices :
       /\ reverseSeries.x[i] # reverseSeries.x[i - 1]
       /\ reverseSeries.x[i] # reverseSeries.x[i + 1]
  /\ \E i \in InsertedIndices :
       /\ reverseSeries.x[i] = reverseSeries.x[i - 1]
       /\ netLoad[1] # 0
       /\ netLoad[2] # 0

====
